---------------------------- MODULE Spec2Model ----------------------------
(***************************************************************************)
(* Model of the grading engine of ai-builders/entrance-exam-2022:          *)
(* src/src/nbnursery/testutils.py (ExecArg, TestScenario, TestCase,        *)
(* TestGroup, TestSuite and their results), the run configuration of       *)
(* src/src/aibuilders_exam/grading/context.py and the test bank of         *)
(* src/grade.py.                                                           *)
(*                                                                         *)
(* One run of TestSuite.execute is a sequential program; the variables     *)
(* hold the definitions (suite), the configuration (ctx), the artifact     *)
(* namespace (mod), the position of the run (pc, gi, ci) and the locals    *)
(* of the frames of TestSuite.execute, TestGroup.execute and               *)
(* TestCase.execute.                                                       *)
(***************************************************************************)
EXTENDS Integers, Sequences, FiniteSets, TLC

VARIABLES
    suite,        \* TestSuite: [test_groups : Seq(TestGroup)]
    ctx,          \* ApplicationContext
    mod,          \* the artifact namespace: item name -> binding
    pc,           \* position of the run
    gi,           \* TestSuite.execute: index of test_group in test_groups
    ci,           \* TestGroup.execute: index of test_case in all_test_cases
    is_accepted,  \* TestGroup.execute: local is_accepted
    tc_results,   \* TestGroup.execute: local tc_results
    tg_results,   \* TestSuite.execute: local tg_results
    exec_args,    \* TestCase.execute: values resolved so far
    result,       \* the TestSuiteResult returned by TestSuite.execute
    executed,     \* history: cases on which TestCase.execute was called
    invoked,      \* history: cases whose wrapped_func was invoked
    raised,       \* history: the exceptions raised inside TestCase.execute
    resolved,     \* history: the calls of get_value, <<group, case, position>>
    defn,         \* the routine, sources and values a scenario and a case are defined from
    created,      \* what TestScenario.create returned or raised
    built,        \* what TestScenario.data returned or raised
    export_json,  \* program: whether --export-json is given
    exit_status,  \* program: the status of SystemExit
    report,       \* program: the object written to the JSON file
    previous,     \* a caller of TestSuite.execute: what an earlier call started from and returned
    nb,           \* load_module: the notebook read from path, or Unreadable
    interpret_ipython_cmd, \* NotebookLoader: the field of that name
    shell_user_ns,  \* NotebookLoader: shell.user_ns, a reference to a namespace
    save_user_ns,   \* load_module: local save_user_ns
    cell,         \* load_module: index of cell in nb.cells
    load_pc,      \* load_module: position of the call
    load_raised,  \* load_module: the exception that is propagating
    cells_run,    \* history: the cells handed to exec, in the order of the calls
    user_ns_before  \* history: shell.user_ns when load_module was called

\* The state of the definitions and the state of the driver: the engine
\* leaves both alone.
definition_vars == <<defn, created, built>>
driver_vars == <<export_json, exit_status, report>>
caller_vars == <<previous>>
loader_vars == <<nb, interpret_ipython_cmd, shell_user_ns, save_user_ns, cell, load_pc,
                 load_raised, cells_run, user_ns_before>>

vars == <<suite, ctx, mod, pc, gi, ci, is_accepted, tc_results, tg_results,
          exec_args, result, executed, invoked, raised, resolved,
          defn, created, built, export_json, exit_status, report, previous,
          nb, interpret_ipython_cmd, shell_user_ns, save_user_ns, cell, load_pc,
          load_raised, cells_run, user_ns_before>>

-----------------------------------------------------------------------------
(* Bounds of the model.                                                    *)

\* Largest number of test cases of a test group.
MaxCases == 2

\* The sequences over S of length at most n.
SeqsUpTo(S, n) == UNION {[1..k -> S] : k \in 0..n}

-----------------------------------------------------------------------------
(* Argument sources.                                                       *)

\* ModuleItem(item_name): looks the name up in the module.
ModuleItem(item_name) == [kind |-> "ModuleItem", item_name |-> item_name, id |-> 0]

\* Param(): a slot; id stands for id(self), unique per Param object.
Param(id) == [kind |-> "Param", item_name |-> "", id |-> id]

\* The outcome of an evaluation: a value returned or an exception raised.
Return(v) == [raised |-> "None", value |-> v]
Raise(exc) == [raised |-> exc, value |-> 0]

\* A name absent from the module.
Absent == "<absent>"

\* ModuleItem.get_value with a default, getattr(mod, self.item_name, None):
\* an absent name resolves instead of raising.
ModuleItem_get_value_Default(self, test_data, m) ==
    Return([name |-> self.item_name, impl |-> m[self.item_name]])

\* ModuleItem.get_value: getattr(mod, self.item_name).
ModuleItem_get_value(self, test_data, m) ==
    IF m[self.item_name] = Absent
    THEN Raise("AttributeError")
    ELSE Return([name |-> self.item_name, impl |-> m[self.item_name]])

\* Param.get_value: test_data.params[id(self)].
Param_get_value(self, test_data, m) ==
    IF self.id \in DOMAIN test_data.params
    THEN Return(test_data.params[self.id])
    ELSE Raise("KeyError")

\* ExecArg.get_value, dispatched on the class of the source.
get_value(self, test_data, m) ==
    IF self.kind = "ModuleItem"
    THEN ModuleItem_get_value(self, test_data, m)
    ELSE Param_get_value(self, test_data, m)

-----------------------------------------------------------------------------
(* Scenarios and cases.                                                    *)

\* inspect.Parameter kinds accepted by TestScenario.create.
POSITIONAL_ARGS == {"POSITIONAL_ONLY", "POSITIONAL_OR_KEYWORD"}

\* The dataclass TestScenario.
TestScenario(wrapped_func, args) == [wrapped_func |-> wrapped_func, exec_args |-> args]

\* create without the test for too many argument sources.
create_NoLowerCheck(args, func) ==
    IF \E i \in 1..Len(func.parameters) : func.parameters[i] \notin POSITIONAL_ARGS
    THEN [error |-> "TypeError", message |-> <<func.name, "must all be positional">>,
          scenario |-> TestScenario("", <<>>)]
    ELSE IF Len(func.parameters) > Len(args)
    THEN [error |-> "TypeError", message |-> <<func.name, "too many input arguments">>,
          scenario |-> TestScenario("", <<>>)]
    ELSE [error |-> "None", message |-> <<>>, scenario |-> TestScenario(func.name, args)]

\* TestScenario.create(*args)(func): func is [name, parameters], parameters
\* the kinds of the parameters of its signature.
create(args, func) ==
    IF \E i \in 1..Len(func.parameters) : func.parameters[i] \notin POSITIONAL_ARGS
    THEN [error |-> "TypeError", message |-> <<func.name, "must all be positional">>,
          scenario |-> TestScenario("", <<>>)]
    ELSE IF Len(func.parameters) > Len(args)
    THEN [error |-> "TypeError", message |-> <<func.name, "too many input arguments">>,
          scenario |-> TestScenario("", <<>>)]
    ELSE IF Len(func.parameters) < Len(args)
    THEN [error |-> "TypeError", message |-> <<func.name, "not enough input arguments">>,
          scenario |-> TestScenario("", <<>>)]
    ELSE [error |-> "None", message |-> <<>>, scenario |-> TestScenario(func.name, args)]

\* The dataclass TestCase.
TestCase(test_scenario, params) == [test_scenario |-> test_scenario, params |-> params]

IsParam(a) == a.kind = "Param"

\* The ids of the Param sources in the reverse of their order.
field_ids_Reversed(self) ==
    LET ps == SelectSeq(self.exec_args, IsParam)
    IN  [j \in 1..Len(ps) |-> ps[Len(ps) + 1 - j].id]

\* field_ids of TestScenario.data: the ids of the Param sources, in order.
field_ids(self) ==
    LET ps == SelectSeq(self.exec_args, IsParam)
    IN  [j \in 1..Len(ps) |-> ps[j].id]

\* A zip that stops one pair early.
dict_zip_DropLast(ids, values) ==
    [k \in {ids[j] : j \in 1..(Len(ids) - 1)} |->
        values[CHOOSE j \in 1..(Len(ids) - 1) :
                  /\ ids[j] = k
                  /\ \A l \in 1..(Len(ids) - 1) : ids[l] = k => l <= j]]

\* dict(zip(ids, values)): a later pair overwrites an earlier one with the same key.
dict_zip(ids, values) ==
    [k \in {ids[j] : j \in 1..Len(ids)} |->
        values[CHOOSE j \in 1..Len(ids) :
                  /\ ids[j] = k
                  /\ \A l \in 1..Len(ids) : ids[l] = k => l <= j]]

\* data that refuses too few values only.
data_AtLeast(self, params) ==
    IF Len(params) < Len(field_ids(self))
    THEN [error |-> "ValueError",
          message |-> <<self.wrapped_func, Len(field_ids(self)), Len(params)>>,
          case |-> TestCase(self, <<>>)]
    ELSE [error |-> "None", message |-> <<>>,
          case |-> TestCase(self, dict_zip(field_ids(self), params))]

\* TestScenario.data(*params).
data(self, params) ==
    IF Len(params) # Len(field_ids(self))
    THEN [error |-> "ValueError",
          message |-> <<self.wrapped_func, Len(field_ids(self)), Len(params)>>,
          case |-> TestCase(self, <<>>)]
    ELSE [error |-> "None", message |-> <<>>,
          case |-> TestCase(self, dict_zip(field_ids(self), params))]

\* Two scenarios of the test bank of grade.py.
test_count_even ==
    create(<<ModuleItem("count_even"), Param(1), Param(2)>>,
           [name |-> "test_count_even",
            parameters |-> <<"POSITIONAL_OR_KEYWORD", "POSITIONAL_OR_KEYWORD",
                             "POSITIONAL_OR_KEYWORD">>]).scenario

test_cone_surface_area ==
    create(<<ModuleItem("cone_surface_area"), Param(3), Param(4), Param(5)>>,
           [name |-> "test_cone_surface_area",
            parameters |-> <<"POSITIONAL_OR_KEYWORD", "POSITIONAL_OR_KEYWORD",
                             "POSITIONAL_OR_KEYWORD", "POSITIONAL_OR_KEYWORD">>]).scenario

\* The cases a group is built from. A list [1..n] is written n, so that
\* count_even([1, 2, 3, 4, 5]) = 2 reads data(5, 2).
CaseBank ==
    { data(test_count_even, <<5, 2>>).case,
      data(test_cone_surface_area, <<1, 2, 3>>).case }

\* The weights of the groups: the weight of grade.py and the least weight.
Weights == {0, 10}

\* The names of the groups of a suite, in declared order.
GroupNames == <<"0. Count Even", "1. Cone Surface Area">>

\* The dataclass TestGroup.
TestGroup(name, score_weight, all_test_cases) ==
    [name |-> name, score_weight |-> score_weight, all_test_cases |-> all_test_cases]

\* The dataclass TestSuite.
TestSuite(test_groups) == [test_groups |-> test_groups]

\* The suites of the model: a prefix of the group names, each group with a
\* weight and at most MaxCases cases of the bank.
Suites ==
    { TestSuite([g \in 1..n |-> TestGroup(GroupNames[g], w[g], cs[g])]) :
        <<n, w, cs>> \in
            UNION { {n0} \X [1..n0 -> Weights] \X [1..n0 -> SeqsUpTo(CaseBank, MaxCases)]
                    : n0 \in 0..Len(GroupNames) } }

-----------------------------------------------------------------------------
(* The artifact: what the names of the module are bound to.                *)

\* A function of the artifact returns the right value (correct), a wrong
\* value (wrong), raises SystemExit (exits), or returns the right value
\* after deleting its own name from the module (unbinds).
Impls == {"correct", "wrong", "exits", "unbinds"}

Names == {"count_even", "cone_surface_area"}

\* A function given a list may also change it in place: it counts, empties
\* the list (values.clear()) and returns the right count. The arguments of
\* cone_surface_area are floats, which cannot be changed.
Empties == "empties"

Modules ==
    {m \in [Names -> Impls \cup {Empties, Absent}] : m["cone_surface_area"] # Empties}

\* The value the reference implementation returns.
Ref(name, args) ==
    IF name = "count_even" THEN args[1] \div 2 ELSE args[1] * (args[1] + args[2])

\* What stands for the exception of a call that neither returns nor raises.
NeverReturns == "<never returns>"

\* A call of the function `func' of the artifact: what it returns or raises,
\* the module it leaves and the argument objects as it leaves them; a
\* function that loops for ever (hangs) does neither.
Call(func, args, m) ==
    CASE func.impl = "correct" ->
            [raised |-> "None", value |-> Ref(func.name, args), mod |-> m, args |-> args]
      [] func.impl = "wrong" ->
            [raised |-> "None", value |-> Ref(func.name, args) + 1, mod |-> m, args |-> args]
      [] func.impl = "exits" ->
            [raised |-> "SystemExit", value |-> 0, mod |-> m, args |-> args]
      [] func.impl = "unbinds" ->
            [raised |-> "None", value |-> Ref(func.name, args),
             mod |-> [m EXCEPT ![func.name] = Absent], args |-> args]
      [] func.impl = Empties ->
            [raised |-> "None", value |-> Ref(func.name, args), mod |-> m,
             args |-> [args EXCEPT ![1] = 0]]
      [] func.impl = "hangs" ->
            [raised |-> NeverReturns, value |-> 0, mod |-> m, args |-> args]
      [] OTHER ->
            [raised |-> "TypeError", value |-> 0, mod |-> m, args |-> args]

\* The verification routines of grade.py: result = func(inputs...);
\* assertEqual(result, expected).
wrapped_func(args, m) ==
    LET r == Call(args[1], SubSeq(args, 2, Len(args) - 1), m)
        left == <<args[1]>> \o r.args \o <<args[Len(args)]>>
    IN  [raised |-> IF r.raised # "None" THEN r.raised
                    ELSE IF r.value # args[Len(args)] THEN "AssertionError"
                    ELSE "None",
         mod |-> r.mod,
         args |-> left]

\* The routines grade.py wraps, and a routine that only takes its arguments.
BankRoutines == {"test_count_even", "test_cone_surface_area"}

\* scenario.wrapped_func(*args): the routine of the scenario is called.
invoke(scenario, args, m) ==
    IF scenario.wrapped_func \in BankRoutines
    THEN wrapped_func(args, m)
    ELSE [raised |-> "None", mod |-> m, args |-> args]

-----------------------------------------------------------------------------
(* Run configuration and results.                                          *)

\* ApplicationContext.show_stack_trace.
show_stack_trace(c) == c.verbosity >= 1

\* rich_traceback = None.
NoTraceback == [cls |-> "None", exc_type |-> "None", frame |-> "None"]

\* A traceback captured only when the stack trace is to be shown.
traceback_OnlyVerbose(c, exc_type, frame) ==
    IF show_stack_trace(c)
    THEN [cls |-> "Traceback", exc_type |-> exc_type, frame |-> frame]
    ELSE NoTraceback

\* The traceback built in the except clause of TestCase.execute: its class
\* follows ctx.show_stack_trace; it captures the exception being handled
\* and the frame that raised it.
traceback(c, exc_type, frame) ==
    [cls |-> IF show_stack_trace(c) THEN "Traceback" ELSE "BriefTraceback",
     exc_type |-> exc_type, frame |-> frame]

\* The dataclass TestCaseResult; parent refers to the case <<group, index>>.
TestCaseResult(parent, judgement, rich_traceback) ==
    [parent |-> parent, judgement |-> judgement, rich_traceback |-> rich_traceback]

\* TestCaseResult.is_accepted.
tc_is_accepted(r) == r.judgement = "accepted"

\* TestCase.do_skip.
do_skip(self) == TestCaseResult(self, "skipped", NoTraceback)

\* The dataclass TestGroupResult; parent refers to the group by its index.
TestGroupResult(parent, accepted, results) ==
    [parent |-> parent, is_accepted |-> accepted, tc_results |-> results]

\* tc_result is None: the elements of tc_results are TestCaseResult objects,
\* which carry a judgement; None carries none.
is_None(tc_result) == "judgement" \notin DOMAIN tc_result

\* TestGroupResult.skipped_testcases:
\* sum(tc_result is None for tc_result in self.tc_results).
skipped_testcases(self) ==
    Cardinality({i \in 1..Len(self.tc_results) : is_None(self.tc_results[i])})

\* The closing line of TestGroupResult.rich_message.
rich_message_closing(self) ==
    IF self.is_accepted THEN "Congratulations!"
    ELSE IF skipped_testcases(self) > 0 THEN "Skipping remaining tests"
    ELSE "Some mistake found, try again"

\* Credit in proportion to the accepted cases.
score_earned_Partial(self, s) ==
    IF Len(self.tc_results) = 0
    THEN s.test_groups[self.parent].score_weight
    ELSE (s.test_groups[self.parent].score_weight
            * Cardinality({i \in 1..Len(self.tc_results) :
                              self.tc_results[i].judgement = "accepted"}))
         \div Len(self.tc_results)

\* TestGroupResult.score_earned: self.is_accepted * self.parent.score_weight.
score_earned(self, s) ==
    IF self.is_accepted THEN s.test_groups[self.parent].score_weight ELSE 0

\* The dataclass TestSuiteResult.
TestSuiteResult(results) == [tg_results |-> results]

\* sum(f[i] for i in 1..n).
RECURSIVE SumTo(_, _)
SumTo(f, n) == IF n = 0 THEN 0 ELSE SumTo(f, n - 1) + f[n]

\* The weights of the accepted groups only.
total_weight_Accepted(self, s) ==
    SumTo([i \in 1..Len(self.tg_results) |->
              IF self.tg_results[i].is_accepted
              THEN s.test_groups[self.tg_results[i].parent].score_weight
              ELSE 0],
          Len(self.tg_results))

\* TestSuiteResult.total_weight.
total_weight(self, s) ==
    SumTo([i \in 1..Len(self.tg_results) |->
              s.test_groups[self.tg_results[i].parent].score_weight],
          Len(self.tg_results))

\* TestSuiteResult.score_earned.
suite_score_earned(self, s) ==
    SumTo([i \in 1..Len(self.tg_results) |-> score_earned(self.tg_results[i], s)],
          Len(self.tg_results))

\* any() in the place of all().
is_perfect_Any(self) ==
    \E i \in 1..Len(self.tg_results) : self.tg_results[i].is_accepted

\* TestSuiteResult.is_perfect.
is_perfect(self) ==
    \A i \in 1..Len(self.tg_results) : self.tg_results[i].is_accepted

-----------------------------------------------------------------------------
(* The run.                                                                *)

\* The configurations of the model.
Contexts == [force_grade_all : BOOLEAN, always_zero_exit : {FALSE}, verbosity : {0}]

\* No definition in progress; create or data not called.
NoDefinition == [func |-> [name |-> "", parameters |-> <<>>], args |-> <<>>, values |-> <<>>]
NotCalled == [error |-> "NotCalled"]

\* The program has not exited; nothing has been written.
NoExit == 0 - 1
NoReport == [written |-> FALSE]

\* TestSuite.execute was not called before.
NoPrevious == [executed |-> FALSE]

\* The namespaces shell.user_ns can refer to: the one of the interactive
\* session or of an embedding program, the __dict__ of the module being
\* loaded, and one a cell binds afresh.
UserNamespaces == {"interactive", "embedded"}
ModuleDict == "mod.__dict__"
FreshNamespace == "fresh"

\* A notebook read from a file, and what stands for a file that is not a
\* notebook.
NotebookNode(cells) == [readable |-> TRUE, cells |-> cells]
Unreadable == [readable |-> FALSE, cells |-> <<>>]

\* No exception is propagating; save_user_ns is not bound yet.
NoException == "None"
Unbound == "<unbound>"

\* load_module is not part of the run: the artifact is given.
LoaderIdle ==
    /\ nb = NotebookNode(<<>>)
    /\ interpret_ipython_cmd = FALSE
    /\ shell_user_ns = "interactive"
    /\ save_user_ns = Unbound
    /\ cell = 0
    /\ load_pc = "idle"
    /\ load_raised = NoException
    /\ cells_run = <<>>
    /\ user_ns_before = "interactive"

\* No suite result yet.
NoResult == [tg_results |-> <<>>, returned |-> FALSE]

Init ==
    /\ suite \in Suites
    /\ ctx \in Contexts
    /\ mod \in Modules
    /\ pc = "start"
    /\ gi = 0
    /\ ci = 0
    /\ is_accepted = TRUE
    /\ tc_results = <<>>
    /\ tg_results = <<>>
    /\ exec_args = <<>>
    /\ result = NoResult
    /\ executed = <<>>
    /\ invoked = <<>>
    /\ raised = <<>>
    /\ resolved = <<>>
    /\ defn = NoDefinition
    /\ created = NotCalled
    /\ built = NotCalled
    /\ export_json = FALSE
    /\ exit_status = NoExit
    /\ report = NoReport
    /\ previous = NoPrevious
    /\ LoaderIdle

\* The group and the case the run is at.
test_group == suite.test_groups[gi]
test_case == test_group.all_test_cases[ci]

\* TestSuite.execute without tg_results = []: the list of an earlier call
\* is appended to.
SuiteExecute_Accumulate ==
    /\ pc = "start"
    /\ pc' = "suite_loop"
    /\ gi' = 0
    /\ UNCHANGED <<suite, ctx, mod, ci, is_accepted, tc_results, tg_results, exec_args,
                   result, executed, invoked, raised>>
    /\ UNCHANGED <<resolved, definition_vars, caller_vars, loader_vars, driver_vars>>

\* TestSuite.execute is entered: tg_results = [].
SuiteExecute ==
    /\ pc = "start"
    /\ pc' = "suite_loop"
    /\ tg_results' = <<>>
    /\ gi' = 0
    /\ UNCHANGED <<suite, ctx, mod, ci, is_accepted, tc_results, exec_args, result,
                   executed, invoked, raised>>
    /\ UNCHANGED <<resolved, definition_vars, caller_vars, loader_vars, driver_vars>>

\* TestGroup.execute with the flag is_accepted kept from the group before.
GroupExecute_Carry ==
    /\ pc = "suite_loop"
    /\ gi < Len(suite.test_groups)
    /\ gi' = gi + 1
    /\ tc_results' = <<>>
    /\ ci' = 0
    /\ pc' = "group_loop"
    /\ UNCHANGED <<suite, ctx, mod, is_accepted, tg_results, exec_args, result, executed,
                   invoked, raised>>
    /\ UNCHANGED <<resolved, definition_vars, caller_vars, loader_vars, driver_vars>>

\* for test_group in self.test_groups: TestGroup.execute is entered with
\* is_accepted = True and tc_results = [].
GroupExecute ==
    /\ pc = "suite_loop"
    /\ gi < Len(suite.test_groups)
    /\ gi' = gi + 1
    /\ is_accepted' = TRUE
    /\ tc_results' = <<>>
    /\ ci' = 0
    /\ pc' = "group_loop"
    /\ UNCHANGED <<suite, ctx, mod, tg_results, exec_args, result, executed, invoked, raised>>
    /\ UNCHANGED <<resolved, definition_vars, caller_vars, loader_vars, driver_vars>>

\* The loop of TestSuite.execute is over: return TestSuiteResult(tg_results).
SuiteReturn ==
    /\ pc = "suite_loop"
    /\ gi = Len(suite.test_groups)
    /\ result' = [tg_results |-> tg_results, returned |-> TRUE]
    /\ pc' = "done"
    /\ UNCHANGED <<suite, ctx, mod, gi, ci, is_accepted, tc_results, tg_results,
                   exec_args, executed, invoked, raised>>
    /\ UNCHANGED <<resolved, definition_vars, caller_vars, loader_vars, driver_vars>>

\* The test with force_grade_all inverted.
skips_Inverted(accepted, c) == ~accepted /\ c.force_grade_all

\* The test without force_grade_all.
skips_IgnoreFlag(accepted, c) == ~accepted

\* The test that also goes on grading when the stack trace is shown.
skips_UnlessVerbose(accepted, c) ==
    ~accepted /\ ~c.force_grade_all /\ ~show_stack_trace(c)

\* The test of TestGroup.execute that skips a case.
skips(accepted, c) == ~accepted /\ ~c.force_grade_all

\* The branch that skips, without the append.
CaseSkip_NoAppend ==
    /\ pc = "group_loop"
    /\ ci < Len(suite.test_groups[gi].all_test_cases)
    /\ ~is_accepted /\ ~ctx.force_grade_all
    /\ ci' = ci + 1
    /\ UNCHANGED <<suite, ctx, mod, pc, gi, is_accepted, tc_results, tg_results,
                   exec_args, result, executed, invoked, raised>>
    /\ UNCHANGED <<resolved, definition_vars, caller_vars, loader_vars, driver_vars>>

\* The branch that skips without its continue: the skipped result is appended
\* and TestCase.execute is entered for the same case.
CaseSkip_NoContinue ==
    /\ pc = "group_loop"
    /\ ci < Len(suite.test_groups[gi].all_test_cases)
    /\ skips(is_accepted, ctx)
    /\ ci' = ci + 1
    /\ tc_results' = Append(tc_results, do_skip(<<gi, ci + 1>>))
    /\ exec_args' = <<>>
    /\ executed' = Append(executed, <<gi, ci + 1>>)
    /\ pc' = "resolve"
    /\ UNCHANGED <<suite, ctx, mod, gi, is_accepted, tg_results, result, invoked, raised>>
    /\ UNCHANGED <<resolved, definition_vars, caller_vars, loader_vars, driver_vars>>

\* for test_case in self.all_test_cases, the branch that skips:
\* tc_results.append(test_case.do_skip()); continue.
CaseSkip ==
    /\ pc = "group_loop"
    /\ ci < Len(test_group.all_test_cases)
    /\ skips(is_accepted, ctx)
    /\ ci' = ci + 1
    /\ tc_results' = Append(tc_results, do_skip(<<gi, ci + 1>>))
    /\ UNCHANGED <<suite, ctx, mod, pc, gi, is_accepted, tg_results, exec_args, result,
                   executed, invoked, raised>>
    /\ UNCHANGED <<resolved, definition_vars, caller_vars, loader_vars, driver_vars>>

\* for test_case in self.all_test_cases, the other branch: TestCase.execute
\* is entered.
CaseExecute ==
    /\ pc = "group_loop"
    /\ ci < Len(test_group.all_test_cases)
    /\ ~skips(is_accepted, ctx)
    /\ ci' = ci + 1
    /\ exec_args' = <<>>
    /\ executed' = Append(executed, <<gi, ci + 1>>)
    /\ pc' = "resolve"
    /\ UNCHANGED <<suite, ctx, mod, gi, is_accepted, tc_results, tg_results, result,
                   invoked, raised>>
    /\ UNCHANGED <<resolved, definition_vars, caller_vars, loader_vars, driver_vars>>

\* is_accepted = result.is_accepted: the last executed case decides.
CaseReturns_Last(r) ==
    /\ is_accepted' = (r.judgement = "accepted")
    /\ tc_results' = Append(tc_results, r)
    /\ exec_args' = <<>>
    /\ pc' = "group_loop"

\* The fold with `or' in the place of `and'.
CaseReturns_Or(r) ==
    /\ is_accepted' = (is_accepted \/ tc_is_accepted(r))
    /\ tc_results' = Append(tc_results, r)
    /\ exec_args' = <<>>
    /\ pc' = "group_loop"

\* TestCase.execute returns r to TestGroup.execute, which folds it into
\* is_accepted and appends it to tc_results.
CaseReturns(r) ==
    /\ is_accepted' = (is_accepted /\ tc_is_accepted(r))
    /\ tc_results' = Append(tc_results, r)
    /\ exec_args' = <<>>
    /\ pc' = "group_loop"

\* `except Exception:' lets SystemExit and KeyboardInterrupt through.
catches_Exception(exc) == exc \notin {"SystemExit", "KeyboardInterrupt"}

\* The clause `except:' of TestCase.execute: it names no class, so it
\* handles every exception.
catches(exc) == TRUE

\* An except clause that runs the case once more after its first exception.
CaseRaises_Retry(exc, frame) ==
    /\ raised' = Append(raised, <<gi, ci, exc>>)
    /\ IF \E i \in 1..Len(raised) : raised[i][1] = gi /\ raised[i][2] = ci
       THEN CaseReturns(TestCaseResult(<<gi, ci>>, "mistake", traceback(ctx, exc, frame)))
       ELSE /\ exec_args' = <<>>
            /\ pc' = "resolve"
            /\ UNCHANGED <<is_accepted, tc_results>>

\* An exception raised inside the try block of TestCase.execute: the except
\* clause returns a mistake with the traceback; an exception it does not
\* handle leaves TestCase.execute, TestGroup.execute and TestSuite.execute,
\* none of which handles it.
CaseRaises(exc, frame) ==
    /\ raised' = Append(raised, <<gi, ci, exc>>)
    /\ IF catches(exc)
       THEN CaseReturns(TestCaseResult(<<gi, ci>>, "mistake", traceback(ctx, exc, frame)))
       ELSE /\ pc' = "raised"
            /\ UNCHANGED <<is_accepted, tc_results, exec_args>>

\* The list built over reversed(exec_args): the sources are resolved from the
\* last to the first.
ResolveArg_Reversed ==
    /\ pc = "resolve"
    /\ Len(exec_args) < Len(suite.test_groups[gi].all_test_cases[ci].test_scenario.exec_args)
    /\ LET tc == suite.test_groups[gi].all_test_cases[ci]
           pos == Len(tc.test_scenario.exec_args) - Len(exec_args)
           v == get_value(tc.test_scenario.exec_args[pos], tc, mod)
       IN  /\ resolved' = Append(resolved, <<gi, ci, pos>>)
           /\ IF v.raised = "None"
              THEN /\ exec_args' = <<v.value>> \o exec_args
                   /\ UNCHANGED <<pc, is_accepted, tc_results, raised>>
              ELSE /\ raised' = Append(raised, <<gi, ci, v.raised>>)
                   /\ is_accepted' = FALSE
                   /\ tc_results' = Append(tc_results,
                         TestCaseResult(<<gi, ci>>, "mistake",
                                        traceback(ctx, v.raised, "get_value")))
                   /\ exec_args' = <<>>
                   /\ pc' = "group_loop"
    /\ UNCHANGED <<suite, ctx, mod, gi, ci, tg_results, result, executed, invoked>>
    /\ UNCHANGED <<definition_vars, caller_vars, loader_vars, driver_vars>>

\* One element of the list [arg.get_value(self, mod) for arg in exec_args].
ResolveArg ==
    /\ pc = "resolve"
    /\ Len(exec_args) < Len(test_case.test_scenario.exec_args)
    /\ LET arg == test_case.test_scenario.exec_args[Len(exec_args) + 1]
           v == get_value(arg, test_case, mod)
       IN  IF v.raised = "None"
           THEN /\ exec_args' = Append(exec_args, v.value)
                /\ UNCHANGED <<pc, is_accepted, tc_results, raised>>
           ELSE CaseRaises(v.raised, "get_value")
    /\ resolved' = Append(resolved, <<gi, ci, Len(exec_args) + 1>>)
    /\ UNCHANGED <<suite, ctx, mod, gi, ci, tg_results, result, executed, invoked>>
    /\ UNCHANGED <<definition_vars, caller_vars, loader_vars, driver_vars>>

\* The routine was called with the objects of the case itself, not copies:
\* params of the case tc once the call has left the arguments as args.
params_after(tc, args) ==
    [id \in DOMAIN tc.params |->
        LET at == {k \in 1..Len(tc.test_scenario.exec_args) :
                      /\ IsParam(tc.test_scenario.exec_args[k])
                      /\ tc.test_scenario.exec_args[k].id = id}
        IN  IF at = {} THEN tc.params[id]
            ELSE args[CHOOSE k \in at : \A l \in at : k <= l]]

\* A call of the routine that is given up after a time limit: the case is a
\* mistake and the run goes on.
CallWrappedFunc_Timeout ==
    /\ pc = "resolve"
    /\ Len(exec_args) = Len(suite.test_groups[gi].all_test_cases[ci].test_scenario.exec_args)
    /\ LET r == invoke(suite.test_groups[gi].all_test_cases[ci].test_scenario, exec_args, mod)
       IN  /\ mod' = r.mod
           /\ suite' = [suite EXCEPT
                 !.test_groups[gi].all_test_cases[ci].params =
                     params_after(suite.test_groups[gi].all_test_cases[ci], r.args)]
           /\ IF r.raised = "None"
              THEN /\ CaseReturns(TestCaseResult(<<gi, ci>>, "accepted", NoTraceback))
                   /\ UNCHANGED raised
              ELSE IF r.raised = NeverReturns
              THEN CaseRaises("TimeoutError", "wrapped_func")
              ELSE CaseRaises(r.raised, "wrapped_func")
    /\ invoked' = Append(invoked, <<gi, ci>>)
    /\ UNCHANGED <<ctx, gi, ci, tg_results, result, executed>>
    /\ UNCHANGED <<resolved, definition_vars, caller_vars, loader_vars, driver_vars>>

\* self.test_scenario.wrapped_func(*exec_args): the routine returns and the
\* else clause returns an accepted result, or it raises, or it never
\* returns and the run stays inside the call.
CallWrappedFunc ==
    /\ pc = "resolve"
    /\ Len(exec_args) = Len(test_case.test_scenario.exec_args)
    /\ LET r == invoke(test_case.test_scenario, exec_args, mod)
       IN  /\ mod' = r.mod
           /\ suite' = [suite EXCEPT
                 !.test_groups[gi].all_test_cases[ci].params =
                     params_after(suite.test_groups[gi].all_test_cases[ci], r.args)]
           /\ IF r.raised = "None"
              THEN /\ CaseReturns(TestCaseResult(<<gi, ci>>, "accepted", NoTraceback))
                   /\ UNCHANGED raised
              ELSE IF r.raised = NeverReturns
              THEN /\ pc' = "in_wrapped_func"
                   /\ UNCHANGED <<is_accepted, tc_results, exec_args, raised>>
              ELSE CaseRaises(r.raised, "wrapped_func")
    /\ invoked' = Append(invoked, <<gi, ci>>)
    /\ UNCHANGED <<ctx, gi, ci, tg_results, result, executed>>
    /\ UNCHANGED <<resolved, definition_vars, caller_vars, loader_vars, driver_vars>>

\* The loop of TestGroup.execute is over: it returns
\* TestGroupResult(self, is_accepted, tc_results), which TestSuite.execute
\* appends to tg_results.
GroupReturn ==
    /\ pc = "group_loop"
    /\ ci = Len(test_group.all_test_cases)
    /\ tg_results' = Append(tg_results, TestGroupResult(gi, is_accepted, tc_results))
    /\ pc' = "suite_loop"
    /\ UNCHANGED <<suite, ctx, mod, gi, ci, is_accepted, tc_results, exec_args, result,
                   executed, invoked, raised>>
    /\ UNCHANGED <<resolved, definition_vars, caller_vars, loader_vars, driver_vars>>

Next ==
    \/ SuiteExecute
    \/ GroupExecute
    \/ SuiteReturn
    \/ CaseSkip
    \/ CaseExecute
    \/ ResolveArg
    \/ CallWrappedFunc
    \/ GroupReturn

Spec == Init /\ [][Next]_vars

\* The functions of the artifact of the runs with a routine that may never
\* return.
LiveModules == [Names -> {"correct", "wrong", "hangs"}]

InitLive ==
    /\ suite \in Suites
    /\ ctx \in Contexts
    /\ mod \in LiveModules
    /\ pc = "start"
    /\ gi = 0
    /\ ci = 0
    /\ is_accepted = TRUE
    /\ tc_results = <<>>
    /\ tg_results = <<>>
    /\ exec_args = <<>>
    /\ result = NoResult
    /\ executed = <<>>
    /\ invoked = <<>>
    /\ raised = <<>>
    /\ resolved = <<>>
    /\ defn = NoDefinition
    /\ created = NotCalled
    /\ built = NotCalled
    /\ export_json = FALSE
    /\ exit_status = NoExit
    /\ report = NoReport
    /\ previous = NoPrevious
    /\ LoaderIdle

\* The interpreter runs the one thread of the program: a statement that can
\* be executed is executed.
SpecLive == InitLive /\ [][Next]_vars /\ WF_vars(Next)

-----------------------------------------------------------------------------
(* The definition of a scenario and of a case, then a run on that case.    *)

\* Largest number of parameters, argument sources and data values.
MaxArity == 3

\* The kinds of inspect.Parameter a routine is declared with.
ParamKinds == {"POSITIONAL_OR_KEYWORD", "VAR_POSITIONAL", "KEYWORD_ONLY"}

\* The order Python imposes on the parameters of a signature: positional
\* parameters, then at most one *args, then keyword-only parameters.
KindRank(k) ==
    CASE k = "POSITIONAL_OR_KEYWORD" -> 1
      [] k = "VAR_POSITIONAL" -> 2
      [] k = "KEYWORD_ONLY" -> 3

Signatures ==
    {ps \in SeqsUpTo(ParamKinds, MaxArity) :
        /\ \A i, j \in 1..Len(ps) : i < j => KindRank(ps[i]) <= KindRank(ps[j])
        /\ Cardinality({i \in 1..Len(ps) : ps[i] = "VAR_POSITIONAL"}) <= 1}

\* The argument sources given to TestScenario.create: one ModuleItem and two
\* Param objects, each of which may be given at several positions.
Sources == {ModuleItem("count_even"), Param(1), Param(2)}

\* The data values given to TestScenario.data.
Values == {7, 8}

Definitions ==
    [func : [name : {"test_routine"}, parameters : Signatures],
     args : SeqsUpTo(Sources, MaxArity),
     values : SeqsUpTo(Values, MaxArity)]

\* The modules of these runs: every name bound, or none.
DefModules == {[n \in Names |-> b] : b \in {"correct", Absent}}

InitDef ==
    /\ defn \in Definitions
    /\ created = NotCalled
    /\ built = NotCalled
    /\ suite = TestSuite(<<>>)
    /\ ctx \in [force_grade_all : {FALSE}, always_zero_exit : {FALSE}, verbosity : {0}]
    /\ mod \in DefModules
    /\ pc = "define"
    /\ gi = 0
    /\ ci = 0
    /\ is_accepted = TRUE
    /\ tc_results = <<>>
    /\ tg_results = <<>>
    /\ exec_args = <<>>
    /\ result = NoResult
    /\ executed = <<>>
    /\ invoked = <<>>
    /\ raised = <<>>
    /\ resolved = <<>>
    /\ export_json = FALSE
    /\ exit_status = NoExit
    /\ report = NoReport
    /\ previous = NoPrevious
    /\ LoaderIdle

\* The variables of a run and of the driver.
run_vars == <<ctx, mod, gi, ci, is_accepted, tc_results, tg_results, exec_args, result,
              executed, invoked, raised, resolved>>

\* @TestScenario.create(*args) applied to the routine: a scenario, or the
\* TypeError that ends the definition.
Create ==
    /\ pc = "define"
    /\ created' = create(defn.args, defn.func)
    /\ pc' = IF created'.error = "None" THEN "created" ELSE "definition_error"
    /\ UNCHANGED <<suite, defn, built, run_vars, driver_vars, caller_vars, loader_vars>>

\* scenario.data(*values): a case, or the ValueError that ends the definition.
Data ==
    /\ pc = "created"
    /\ built' = data(created.scenario, defn.values)
    /\ pc' = IF built'.error = "None" THEN "built" ELSE "definition_error"
    /\ UNCHANGED <<suite, defn, created, run_vars, driver_vars, caller_vars, loader_vars>>

\* TestSuite([TestGroup(name, 10, [case, case])]): the case is declared twice
\* in one group, and the suite is handed to TestSuite.execute.
Declare ==
    /\ pc = "built"
    /\ suite' = TestSuite(<<TestGroup(GroupNames[1], 10, <<built.case, built.case>>)>>)
    /\ pc' = "start"
    /\ UNCHANGED <<definition_vars, caller_vars, loader_vars, run_vars, driver_vars>>

NextDef ==
    \/ Create
    \/ Data
    \/ Declare
    \/ Next

SpecDef == InitDef /\ [][NextDef]_vars

-----------------------------------------------------------------------------
(* The grading program: load the notebook, run the suite, export, exit.    *)

\* A summary that lists the judgements of the executed cases only.
TestGroupResult_serialize_Executed(self, s) ==
    [group_name |-> s.test_groups[self.parent].name,
     score_weight |-> s.test_groups[self.parent].score_weight,
     score_earned |-> score_earned(self, s),
     is_accepted |-> self.is_accepted,
     sub_results |-> SelectSeq([i \in 1..Len(self.tc_results) |-> self.tc_results[i].judgement],
                               LAMBDA j : j # "skipped")]

\* TestGroupResult.serialize.
TestGroupResult_serialize(self, s) ==
    [group_name |-> s.test_groups[self.parent].name,
     score_weight |-> s.test_groups[self.parent].score_weight,
     score_earned |-> score_earned(self, s),
     is_accepted |-> self.is_accepted,
     sub_results |-> [i \in 1..Len(self.tc_results) |-> self.tc_results[i].judgement]]

\* TestSuiteResult.serialize.
TestSuiteResult_serialize(self, s) ==
    [total_weight |-> total_weight(self, s),
     score_earned |-> suite_score_earned(self, s),
     test_groups |-> [i \in 1..Len(self.tg_results) |->
                         TestGroupResult_serialize(self.tg_results[i], s)]]

\* TestGroup.do_skip of the engine module the program imports: a group result
\* that is not accepted and holds do_skip() of every declared case, in order.
TestGroup_do_skip(s, g) ==
    TestGroupResult(g, FALSE,
        [c \in 1..Len(s.test_groups[g].all_test_cases) |-> do_skip(<<g, c>>)])

\* TestSuite.do_skip of the engine module the program imports: the result of
\* a suite none of whose cases was executed.
TestSuite_do_skip(s) ==
    TestSuiteResult([g \in 1..Len(s.test_groups) |-> TestGroup_do_skip(s, g)])

\* json.dump(obj, f) on the file opened for writing.
Written(obj) == [written |-> TRUE, content |-> obj]

\* The functions a notebook of these runs defines: both names of the bank,
\* each right, wrong, or ending the interpreter when called.
DriverModules == [Names -> {"correct", "wrong", "exits"}]

\* mod before load_module has returned: no name is bound.
NotLoaded == [n \in Names |-> Absent]

\* The statuses a cell of the notebook passes to sys.exit.
ExitCodes == {0, 3}

\* The options of the command line.
DriverContexts == [force_grade_all : BOOLEAN, always_zero_exit : BOOLEAN, verbosity : {0}]

InitDriver ==
    /\ suite \in Suites
    /\ ctx \in DriverContexts
    /\ export_json \in BOOLEAN
    /\ mod = NotLoaded
    /\ pc = "program"
    /\ gi = 0
    /\ ci = 0
    /\ is_accepted = TRUE
    /\ tc_results = <<>>
    /\ tg_results = <<>>
    /\ exec_args = <<>>
    /\ result = NoResult
    /\ executed = <<>>
    /\ invoked = <<>>
    /\ raised = <<>>
    /\ resolved = <<>>
    /\ defn = NoDefinition
    /\ created = NotCalled
    /\ built = NotCalled
    /\ exit_status = NoExit
    /\ report = NoReport
    /\ previous = NoPrevious
    /\ LoaderIdle

\* The locals of the frames of the engine.
engine_vars == <<gi, ci, is_accepted, tc_results, tg_results, exec_args, result,
                 executed, invoked, raised, resolved>>

\* mod = nb_loader.load_module(module_name, notebook_file) returns the module
\* of the notebook; TEST_SUITE.execute(ctx, mod) is next.
LoadModule ==
    /\ pc = "program"
    /\ \E m \in DriverModules : mod' = m
    /\ pc' = "start"
    /\ UNCHANGED <<suite, ctx, engine_vars, definition_vars, caller_vars, loader_vars, driver_vars>>

\* load_module raises an exception derived from Exception (the file is not a
\* notebook, a cell raises): the except clause writes the report of
\* TEST_SUITE.do_skip() if export_json is set, then raises SystemExit(1).
LoadFailure ==
    /\ pc = "program"
    /\ report' = IF export_json
                 THEN Written(TestSuiteResult_serialize(TestSuite_do_skip(suite), suite))
                 ELSE report
    /\ exit_status' = 1
    /\ pc' = "exited"
    /\ UNCHANGED <<suite, ctx, mod, engine_vars, definition_vars, caller_vars, loader_vars, export_json>>

\* A cell of the notebook calls sys.exit(code): exec raises SystemExit, which
\* `except Exception' does not catch; the program ends with that status.
LoadEscapes ==
    /\ pc = "program"
    /\ \E code \in ExitCodes : exit_status' = code
    /\ pc' = "exited"
    /\ UNCHANGED <<suite, ctx, mod, engine_vars, definition_vars, caller_vars, loader_vars, export_json, report>>

\* if export_json: json.dump(result.serialize(), f).
ExportJson ==
    /\ pc = "done"
    /\ export_json
    /\ report' = Written(TestSuiteResult_serialize(result, suite))
    /\ pc' = "exit"
    /\ UNCHANGED <<suite, ctx, mod, engine_vars, definition_vars, caller_vars, loader_vars>>
    /\ UNCHANGED <<export_json, exit_status>>

\* The exit status without the option: 0 only for a perfect result.
Exit_PerfectOnly ==
    /\ \/ pc = "exit"
       \/ pc = "done" /\ ~export_json
    /\ exit_status' = IF is_perfect(result) THEN 0 ELSE 1
    /\ pc' = "exited"
    /\ UNCHANGED <<suite, ctx, mod, engine_vars, definition_vars, caller_vars, loader_vars, export_json, report>>

\* raise SystemExit(0 if always_zero_exit or result.is_perfect else 1).
Exit ==
    /\ \/ pc = "exit"
       \/ pc = "done" /\ ~export_json
    /\ exit_status' = IF ctx.always_zero_exit \/ is_perfect(result) THEN 0 ELSE 1
    /\ pc' = "exited"
    /\ UNCHANGED <<suite, ctx, mod, engine_vars, definition_vars, caller_vars, loader_vars, export_json, report>>

NextDriver ==
    \/ LoadModule
    \/ LoadFailure
    \/ LoadEscapes
    \/ Next
    \/ ExportJson
    \/ Exit

SpecDriver == InitDriver /\ [][NextDriver]_vars

-----------------------------------------------------------------------------
(* NotebookLoader.load_module: the notebook is read, then its code cells   *)
(* are handed to exec one after the other with shell.user_ns replaced by   *)
(* the __dict__ of the module.                                             *)

\* The longest notebook of the model.
MaxCells == 3

\* What exec(code, mod.__dict__) does with the code of a cell: it binds names
\* and returns, raises an exception derived from Exception, raises SystemExit
\* (sys.exit), or assigns a namespace to the user_ns of the shell and returns.
Effects == {"defines", "raises", "exits", "rebinds"}

\* The cells of a notebook. mentions_get_ipython is what
\* code_contains_identifier(code, 'get_ipython') returns for the code of the
\* cell; a cell that is not code has no code to run.
CodeCells == [cell_type : {"code"}, mentions_get_ipython : BOOLEAN, effect : Effects]
MarkdownCell == [cell_type |-> "markdown", mentions_get_ipython |-> FALSE, effect |-> "defines"]
Cells == CodeCells \cup {MarkdownCell}

\* The files at path: notebooks of at most MaxCells cells, and a file that
\* is not a notebook, for which _read_notebook raises.
Notebooks == {NotebookNode(cells) : cells \in SeqsUpTo(Cells, MaxCells)} \cup {Unreadable}

\* The exception exec raises for an effect.
exec_raises(effect) ==
    CASE effect = "raises" -> "Exception"
      [] effect = "exits" -> "SystemExit"
      [] OTHER -> NoException

\* load_module is about to be called.
InitLoader ==
    /\ suite = TestSuite(<<>>)
    /\ ctx = [force_grade_all |-> FALSE, always_zero_exit |-> FALSE, verbosity |-> 0]
    /\ mod = NotLoaded
    /\ pc = "program"
    /\ gi = 0
    /\ ci = 0
    /\ is_accepted = TRUE
    /\ tc_results = <<>>
    /\ tg_results = <<>>
    /\ exec_args = <<>>
    /\ result = NoResult
    /\ executed = <<>>
    /\ invoked = <<>>
    /\ raised = <<>>
    /\ resolved = <<>>
    /\ defn = NoDefinition
    /\ created = NotCalled
    /\ built = NotCalled
    /\ export_json = FALSE
    /\ exit_status = NoExit
    /\ report = NoReport
    /\ previous = NoPrevious
    /\ nb \in Notebooks
    /\ interpret_ipython_cmd \in BOOLEAN
    /\ shell_user_ns \in UserNamespaces
    /\ save_user_ns = Unbound
    /\ cell = 0
    /\ load_pc = "call"
    /\ load_raised = NoException
    /\ cells_run = <<>>
    /\ user_ns_before = shell_user_ns

\* What load_module leaves alone.
program_vars == <<suite, ctx, mod, pc, engine_vars, definition_vars, driver_vars, caller_vars>>

\* mod = self._prepare_module(fullname, path); nb = self._read_notebook(path)
\* raises when the file is not a notebook, before the try statement; otherwise
\* save_user_ns = self.shell.user_ns; self.shell.user_ns = mod.__dict__ and
\* the loop over nb.cells starts.
LoadBegin ==
    /\ load_pc = "call"
    /\ IF ~nb.readable
       THEN /\ load_raised' = "Exception"
            /\ load_pc' = "raised"
            /\ UNCHANGED <<shell_user_ns, save_user_ns, cell>>
       ELSE /\ save_user_ns' = shell_user_ns
            /\ shell_user_ns' = ModuleDict
            /\ cell' = 1
            /\ load_pc' = "cells"
            /\ UNCHANGED load_raised
    /\ UNCHANGED <<nb, interpret_ipython_cmd, cells_run, user_ns_before, program_vars>>

\* if cell.cell_type != 'code': continue, and the continue of a cell whose
\* code mentions get_ipython while interpret_ipython_cmd is off.
skips_cell(c) ==
    \/ c.cell_type # "code"
    \/ ~interpret_ipython_cmd /\ c.mentions_get_ipython

SkipCell ==
    /\ load_pc = "cells"
    /\ cell <= Len(nb.cells)
    /\ skips_cell(nb.cells[cell])
    /\ cell' = cell + 1
    /\ UNCHANGED <<nb, interpret_ipython_cmd, shell_user_ns, save_user_ns, load_pc,
                   load_raised, cells_run, user_ns_before, program_vars>>

\* exec(code, mod.__dict__): an exception leaves the loop for the finally
\* clause, anything else goes on with the next cell.
ExecCell ==
    /\ load_pc = "cells"
    /\ cell <= Len(nb.cells)
    /\ ~skips_cell(nb.cells[cell])
    /\ cells_run' = Append(cells_run, cell)
    /\ shell_user_ns' = IF nb.cells[cell].effect = "rebinds" THEN FreshNamespace ELSE shell_user_ns
    /\ IF exec_raises(nb.cells[cell].effect) # NoException
       THEN /\ load_raised' = exec_raises(nb.cells[cell].effect)
            /\ load_pc' = "finally"
            /\ UNCHANGED cell
       ELSE /\ cell' = cell + 1
            /\ UNCHANGED <<load_pc, load_raised>>
    /\ UNCHANGED <<nb, interpret_ipython_cmd, save_user_ns, user_ns_before, program_vars>>

\* The loop is exhausted: the try statement ends without an exception.
CellsEnd ==
    /\ load_pc = "cells"
    /\ cell > Len(nb.cells)
    /\ load_pc' = "finally"
    /\ UNCHANGED <<nb, interpret_ipython_cmd, shell_user_ns, save_user_ns, cell,
                   load_raised, cells_run, user_ns_before, program_vars>>

\* The assignment placed after the loop instead of in a finally clause.
Finally_AfterLoop ==
    /\ load_pc = "finally"
    /\ shell_user_ns' = IF load_raised = NoException THEN save_user_ns ELSE shell_user_ns
    /\ load_pc' = IF load_raised = NoException THEN "returned" ELSE "raised"
    /\ UNCHANGED <<nb, interpret_ipython_cmd, save_user_ns, cell, load_raised, cells_run,
                   user_ns_before, program_vars>>

\* finally: self.shell.user_ns = save_user_ns; then return mod, or the
\* exception of the cell goes on to the caller.
Finally ==
    /\ load_pc = "finally"
    /\ shell_user_ns' = save_user_ns
    /\ load_pc' = IF load_raised = NoException THEN "returned" ELSE "raised"
    /\ UNCHANGED <<nb, interpret_ipython_cmd, save_user_ns, cell, load_raised, cells_run,
                   user_ns_before, program_vars>>

NextLoader ==
    \/ LoadBegin
    \/ SkipCell
    \/ ExecCell
    \/ CellsEnd
    \/ Finally

SpecLoader == InitLoader /\ [][NextLoader]_vars

-----------------------------------------------------------------------------
(* A caller that executes the suite twice.                                 *)

\* The values of ctx.verbosity (verbose - quiet) of these runs.
Verbosities == {0, 1}

\* The run configurations of the two calls.
TwiceContexts ==
    [force_grade_all : BOOLEAN, always_zero_exit : {FALSE}, verbosity : Verbosities]

\* The functions of the artifact of these runs: right, wrong, right and
\* removing their own name from the namespace, or right and emptying the
\* list they are given.
TwiceModules ==
    {m \in [Names -> {"correct", "wrong", "unbinds", Empties}] :
        m["cone_surface_area"] # Empties}

\* Before the second call: the suite s and the namespace m the first call
\* starts from.
Started(s, m) == [executed |-> FALSE, suite |-> s, mod |-> m]

\* The two configurations differ in at most one option.
OneOptionApart(c, d) ==
    \/ c.force_grade_all = d.force_grade_all
    \/ c.verbosity = d.verbosity

InitTwice ==
    /\ suite \in Suites
    /\ ctx \in Contexts
    /\ mod \in TwiceModules
    /\ pc = "start"
    /\ gi = 0
    /\ ci = 0
    /\ is_accepted = TRUE
    /\ tc_results = <<>>
    /\ tg_results = <<>>
    /\ exec_args = <<>>
    /\ result = NoResult
    /\ executed = <<>>
    /\ invoked = <<>>
    /\ raised = <<>>
    /\ resolved = <<>>
    /\ defn = NoDefinition
    /\ created = NotCalled
    /\ built = NotCalled
    /\ export_json = FALSE
    /\ exit_status = NoExit
    /\ report = NoReport
    /\ previous = Started(suite, mod)
    /\ LoaderIdle

\* The first call has returned; the caller keeps its serialized result and
\* calls suite.execute(ctx2, mod) on the same suite and the same module
\* object, with a configuration ctx2.
ExecuteAgain ==
    /\ pc = "done"
    /\ ~previous.executed
    /\ previous' = [executed |-> TRUE, suite |-> previous.suite, mod |-> previous.mod,
                    suite_left |-> suite, mod_left |-> mod, ctx |-> ctx,
                    report |-> TestSuiteResult_serialize(result, suite)]
    /\ \E ctx2 \in TwiceContexts : OneOptionApart(ctx, ctx2) /\ ctx' = ctx2
    /\ executed' = <<>>
    /\ invoked' = <<>>
    /\ raised' = <<>>
    /\ resolved' = <<>>
    /\ pc' = "start"
    /\ UNCHANGED <<suite, mod, gi, ci, is_accepted, tc_results, tg_results, exec_args, result>>
    /\ UNCHANGED <<definition_vars, driver_vars, loader_vars>>

NextTwice ==
    \/ Next
    \/ ExecuteAgain

SpecTwice == InitTwice /\ [][NextTwice]_vars

-----------------------------------------------------------------------------
(* Properties of the run.                                                  *)

\* x is an element of the sequence q.
InSeq(x, q) == \E i \in 1..Len(q) : q[i] = x

\* The declared cases of the group a group result belongs to.
CasesOf(gr) == suite.test_groups[gr.parent].all_test_cases

\* The weight of the group a group result belongs to.
WeightOf(gr) == suite.test_groups[gr.parent].score_weight

\* Every case result of the group result is accepted.
AllAccepted(gr) ==
    \A i \in 1..Len(gr.tc_results) : gr.tc_results[i].judgement = "accepted"

\* Some case result of the group result is a mistake.
SomeMistake(gr) ==
    \E i \in 1..Len(gr.tc_results) : gr.tc_results[i].judgement = "mistake"

\* The case results produced so far: those of the groups that returned and
\* those of the group in progress.
ResultsSoFar ==
    {tg_results[k].tc_results[i] :
        <<k, i>> \in {<<k0, i0>> \in (1..Len(tg_results)) \X (1..MaxCases + 1) :
                        i0 <= Len(tg_results[k0].tc_results)}}
    \cup (IF pc \in {"group_loop", "resolve"}
          THEN {tc_results[i] : i \in 1..Len(tc_results)}
          ELSE {})

\* C1: every group result returned by TestGroup.execute has exactly one case
\* result per declared case, and the i-th result is the judgement of the i-th
\* declared case, whatever force_grade_all and the outcomes are.
C1_OneResultPerCase ==
    \A k \in 1..Len(tg_results) :
        LET gr == tg_results[k]
        IN  /\ Len(gr.tc_results) = Len(CasesOf(gr))
            /\ \A i \in 1..Len(gr.tc_results) :
                  /\ gr.tc_results[i].parent = <<gr.parent, i>>
                  /\ gr.tc_results[i].judgement \in {"accepted", "mistake", "skipped"}

\* A finished run with a group of two cases, the second one skipped.
C1_Witness ==
    /\ pc = "done"
    /\ \E k \in 1..Len(tg_results) :
          /\ Len(CasesOf(tg_results[k])) = 2
          /\ Len(tg_results[k].tc_results) = 2
          /\ tg_results[k].tc_results[2].judgement = "skipped"

\* C2: cascade. With force_grade_all false, a mistake at an index smaller than
\* i makes the result at index i skipped.
C2_Cascade ==
    ~ctx.force_grade_all =>
        \A k \in 1..Len(tg_results) :
            \A i \in 1..Len(tg_results[k].tc_results) :
                (\E j \in 1..(i - 1) : tg_results[k].tc_results[j].judgement = "mistake")
                    => tg_results[k].tc_results[i].judgement = "skipped"

\* A group graded without force_grade_all: a mistake, then a skipped case.
C2_Witness ==
    /\ ~ctx.force_grade_all
    /\ \E k \in 1..Len(tg_results) :
          /\ Len(tg_results[k].tc_results) = 2
          /\ tg_results[k].tc_results[1].judgement = "mistake"
          /\ tg_results[k].tc_results[2].judgement = "skipped"

\* C3 as stated: score_earned is 0 or score_weight, and it equals score_weight
\* if and only if every sub-result is accepted, for every weight >= 0.
C3_Original ==
    \A k \in 1..Len(tg_results) :
        LET gr == tg_results[k]
        IN  /\ score_earned(gr, suite) \in {0, WeightOf(gr)}
            /\ (score_earned(gr, suite) = WeightOf(gr)) <=> AllAccepted(gr)

\* C3 amended: score_earned is 0 or score_weight; it equals score_weight when
\* every sub-result is accepted and, for a weight > 0, only then.
C3_BinaryScore ==
    \A k \in 1..Len(tg_results) :
        LET gr == tg_results[k]
        IN  /\ score_earned(gr, suite) \in {0, WeightOf(gr)}
            /\ AllAccepted(gr) => score_earned(gr, suite) = WeightOf(gr)
            /\ (WeightOf(gr) > 0 /\ score_earned(gr, suite) = WeightOf(gr))
                  => AllAccepted(gr)

\* A finished run with a group of weight 0 holding a mistake, and a group of
\* weight 10 with an accepted case and a mistake.
C3_Witness ==
    /\ pc = "done"
    /\ \E k \in 1..Len(tg_results) :
          WeightOf(tg_results[k]) = 0 /\ SomeMistake(tg_results[k])
    /\ \E k \in 1..Len(tg_results) :
          /\ WeightOf(tg_results[k]) = 10
          /\ Len(tg_results[k].tc_results) = 2
          /\ tg_results[k].tc_results[1].judgement = "accepted"
          /\ tg_results[k].tc_results[2].judgement = "mistake"
          /\ score_earned(tg_results[k], suite) = 0

\* C4: the is_accepted of a group result returned by TestGroup.execute is true
\* if and only if every case result has judgement accepted.
C4_IsAccepted ==
    \A k \in 1..Len(tg_results) :
        tg_results[k].is_accepted <=> AllAccepted(tg_results[k])

\* A finished run with an accepted group without cases and a group that a
\* mistake and a skipped case make not accepted.
C4_Witness ==
    /\ pc = "done"
    /\ \E k \in 1..Len(tg_results) :
          Len(CasesOf(tg_results[k])) = 0 /\ tg_results[k].is_accepted
    /\ \E k \in 1..Len(tg_results) :
          /\ ~tg_results[k].is_accepted
          /\ Len(tg_results[k].tc_results) = 2
          /\ tg_results[k].tc_results[1].judgement = "mistake"
          /\ tg_results[k].tc_results[2].judgement = "skipped"

\* C5: the suite result has one group result per declared group, in order; its
\* total_weight is the sum of the declared weights and its score_earned the
\* sum of the weights of the groups whose cases are all accepted.
C5_SuiteSums ==
    result.returned =>
        LET r == TestSuiteResult(result.tg_results)
            n == Len(suite.test_groups)
        IN  /\ Len(r.tg_results) = n
            /\ \A g \in 1..n : r.tg_results[g].parent = g
            /\ total_weight(r, suite)
                  = SumTo([g \in 1..n |-> suite.test_groups[g].score_weight], n)
            /\ suite_score_earned(r, suite)
                  = SumTo([g \in 1..n |->
                              IF AllAccepted(r.tg_results[g])
                              THEN suite.test_groups[g].score_weight ELSE 0], n)

\* A suite of two groups of weight 10, one of them accepted: 10 out of 20.
C5_Witness ==
    /\ result.returned
    /\ Len(suite.test_groups) = 2
    /\ total_weight(TestSuiteResult(result.tg_results), suite) = 20
    /\ suite_score_earned(TestSuiteResult(result.tg_results), suite) = 10

\* C6: is_perfect is true if and only if every case of every declared group is
\* accepted; a group whose cases are all accepted keeps its weight as score
\* whatever the other groups did.
C6_IsPerfect ==
    result.returned =>
        LET r == TestSuiteResult(result.tg_results)
        IN  /\ is_perfect(r) <=>
                  \A g \in 1..Len(suite.test_groups) :
                      /\ g <= Len(r.tg_results)
                      /\ \A i \in 1..Len(suite.test_groups[g].all_test_cases) :
                            /\ i <= Len(r.tg_results[g].tc_results)
                            /\ r.tg_results[g].tc_results[i].judgement = "accepted"
            /\ \A g \in 1..Len(r.tg_results) :
                  AllAccepted(r.tg_results[g])
                      => score_earned(r.tg_results[g], suite) = WeightOf(r.tg_results[g])

\* One mistake in the second group: the suite is not perfect and the first
\* group keeps its score of 10.
C6_Witness ==
    /\ result.returned
    /\ Len(result.tg_results) = 2
    /\ ~is_perfect(TestSuiteResult(result.tg_results))
    /\ Len(result.tg_results[1].tc_results) > 0
    /\ AllAccepted(result.tg_results[1])
    /\ score_earned(result.tg_results[1], suite) = 10
    /\ SomeMistake(result.tg_results[2])

C8_ForceGradeAll ==
    ctx.force_grade_all =>
        /\ \A r \in ResultsSoFar : r.judgement \in {"accepted", "mistake"}
        /\ \A k \in 1..Len(tg_results) :
              /\ \A i \in 1..Len(CasesOf(tg_results[k])) :
                    InSeq(<<tg_results[k].parent, i>>, executed)
              /\ SomeMistake(tg_results[k]) => score_earned(tg_results[k], suite) = 0

\* With force_grade_all, a group of weight 10: a mistake, then an accepted
\* case whose routine was invoked; the group earns 0.
C8_Witness ==
    /\ ctx.force_grade_all
    /\ \E k \in 1..Len(tg_results) :
          /\ WeightOf(tg_results[k]) = 10
          /\ Len(tg_results[k].tc_results) = 2
          /\ tg_results[k].tc_results[1].judgement = "mistake"
          /\ tg_results[k].tc_results[2].judgement = "accepted"
          /\ InSeq(<<tg_results[k].parent, 2>>, invoked)
          /\ score_earned(tg_results[k], suite) = 0

\* The exceptions raised during the execution of the case c = <<group, index>>.
RaisedIn(c) == {i \in 1..Len(raised) : raised[i][1] = c[1] /\ raised[i][2] = c[2]}

\* C9: no exception leaves TestCase.execute. The result of an executed case is
\* accepted if and only if neither the resolution of its arguments nor its
\* routine raised, and a mistake otherwise, whatever was raised; every
\* exception raised has its mistake, and a run that is over has judged every
\* declared group.
C9_NoExceptionEscapes ==
    /\ pc # "raised"
    /\ \A r \in ResultsSoFar :
          r.judgement # "skipped" =>
              /\ InSeq(r.parent, executed)
              /\ r.judgement = "accepted" <=> RaisedIn(r.parent) = {}
              /\ r.judgement = "mistake" <=> RaisedIn(r.parent) # {}
    /\ \A i \in 1..Len(raised) :
          \E r \in ResultsSoFar :
              /\ r.parent = <<raised[i][1], raised[i][2]>>
              /\ r.judgement = "mistake"
              /\ r.rich_traceback.exc_type = raised[i][3]
    /\ pc = "done" => Len(tg_results) = Len(suite.test_groups)

\* The routine of the first case raised SystemExit; the case is a mistake and
\* the run went on to accept a case of the second group.
C9_Witness ==
    /\ pc = "done"
    /\ Len(raised) > 0
    /\ raised[1] = <<1, 1, "SystemExit">>
    /\ tg_results[1].tc_results[1].judgement = "mistake"
    /\ Len(tg_results) = 2
    /\ Len(tg_results[2].tc_results) > 0
    /\ tg_results[2].tc_results[1].judgement = "accepted"

\* The run is resolving a ModuleItem whose name is absent from the module.
ResolvingAbsentItem ==
    /\ pc = "resolve"
    /\ Len(exec_args) < Len(test_case.test_scenario.exec_args)
    /\ LET arg == test_case.test_scenario.exec_args[Len(exec_args) + 1]
       IN  arg.kind = "ModuleItem" /\ mod[arg.item_name] = Absent

\* C10: resolving a ModuleItem whose name is absent from the module ends the
\* case with the judgement mistake, without invoking its routine, and leaves
\* the run in the loop of its group with is_accepted false, as any other
\* mistake does.
C10_MissingBinding ==
    [][ResolvingAbsentItem =>
          /\ pc' = "group_loop"
          /\ gi' = gi /\ ci' = ci
          /\ Len(tc_results') = Len(tc_results) + 1
          /\ tc_results'[Len(tc_results')].parent = <<gi, ci>>
          /\ tc_results'[Len(tc_results')].judgement = "mistake"
          /\ tc_results'[Len(tc_results')].rich_traceback.exc_type = "AttributeError"
          /\ ~is_accepted'
          /\ invoked' = invoked
          /\ tg_results' = tg_results
          /\ mod' = mod]_vars

\* The name of the first case of the first group was absent: a mistake whose
\* routine was never invoked, the second case skipped, the second group graded.
C10_Witness ==
    /\ pc = "done"
    /\ ~ctx.force_grade_all
    /\ Len(tg_results) = 2
    /\ Len(tg_results[1].tc_results) = 2
    /\ tg_results[1].tc_results[1].judgement = "mistake"
    /\ tg_results[1].tc_results[1].rich_traceback.exc_type = "AttributeError"
    /\ tg_results[1].tc_results[1].rich_traceback.frame = "get_value"
    /\ ~InSeq(<<1, 1>>, invoked)
    /\ tg_results[1].tc_results[2].judgement = "skipped"
    /\ InSeq(<<2, 1>>, executed)

\* The positions of the argument sources resolved for the case c, in the
\* order of the calls of get_value.
PositionsOf(c) ==
    LET calls == SelectSeq(resolved, LAMBDA e : e[1] = c[1] /\ e[2] = c[2])
    IN  [k \in 1..Len(calls) |-> calls[k][3]]

\* The number of argument sources of the scenario of the case c.
SourcesOf(c) == Len(suite.test_groups[c[1]].all_test_cases[c[2]].test_scenario.exec_args)

\* TestCase.execute has returned for the case c.
Finished(c) == \E r \in ResultsSoFar : r.parent = c /\ r.judgement # "skipped"

\* The cases on which TestCase.execute was called.
ExecutedCases == {executed[i] : i \in 1..Len(executed)}

\* C15 as stated: in every execution of a case, each argument source is
\* resolved exactly once, in declared order.
C15_Original ==
    \A c \in ExecutedCases :
        Finished(c) => PositionsOf(c) = [k \in 1..SourcesOf(c) |-> k]

\* C15 amended: the sources are resolved in declared order, each at most once;
\* the routine is invoked only after every source was resolved exactly once,
\* and an execution that resolved fewer sources ended with the exception the
\* last resolution raised.
C15_ResolutionOrder ==
    \A c \in ExecutedCases :
        LET ps == PositionsOf(c)
        IN  /\ Len(ps) <= SourcesOf(c)
            /\ \A k \in 1..Len(ps) : ps[k] = k
            /\ InSeq(c, invoked) => Len(ps) = SourcesOf(c)
            /\ (c = <<gi, ci>> /\ pc = "resolve") => Len(ps) = Len(exec_args)
            /\ (Finished(c) /\ Len(ps) < SourcesOf(c)) =>
                  /\ ~InSeq(c, invoked)
                  /\ RaisedIn(c) # {}

\* One case had its three sources resolved before its routine was invoked;
\* another ended at its first source, whose name was absent.
C15_Witness ==
    /\ \E c \in ExecutedCases :
          InSeq(c, invoked) /\ PositionsOf(c) = <<1, 2, 3>>
    /\ \E c \in ExecutedCases :
          Finished(c) /\ PositionsOf(c) = <<1>> /\ SourcesOf(c) > 1

\* A step that adds a result of judgement skipped to the results of the
\* current group.
AddsSkipped ==
    /\ Len(tc_results') = Len(tc_results) + 1
    /\ tc_results'[Len(tc_results')].judgement = "skipped"

\* No source of the case c was resolved, and TestCase.execute was not entered
\* nor its routine invoked.
Untouched(c) ==
    /\ ~InSeq(c, executed)
    /\ ~InSeq(c, invoked)
    /\ PositionsOf(c) = <<>>

\* C16: skipping is pure. The step that reports a case skipped gives it no
\* failure detail, resolves no source, invokes no routine and leaves the
\* namespace unchanged; and at every moment of a run no case reported skipped
\* was executed, resolved or invoked.
C16_SkipIsPure ==
    /\ [](\A r \in ResultsSoFar :
            r.judgement = "skipped" =>
                r.rich_traceback = NoTraceback /\ Untouched(r.parent))
    /\ [][AddsSkipped =>
            /\ tc_results'[Len(tc_results')].rich_traceback = NoTraceback
            /\ UNCHANGED <<mod, exec_args, executed, invoked, resolved, raised>>]_vars

\* A finished run that invoked the routine of a first case, a mistake, and
\* reported the second case of the group skipped.
C16_Witness ==
    /\ pc = "done"
    /\ \E r \in ResultsSoFar :
          /\ r.judgement = "skipped"
          /\ r.parent[2] = 2
          /\ InSeq(<<r.parent[1], 1>>, invoked)

\* The number of results of judgement skipped in a group result.
SkippedIn(gr) ==
    Cardinality({i \in 1..Len(gr.tc_results) : gr.tc_results[i].judgement = "skipped"})

\* C17 as stated: skipped_testcases of every group result equals the number
\* of its results of judgement skipped, and the report announces the skipped
\* remainder whenever a case was skipped. The code counts the results that
\* are None, of which there are none.
C17_SkippedCount ==
    \A k \in 1..Len(tg_results) :
        /\ skipped_testcases(tg_results[k]) = SkippedIn(tg_results[k])
        /\ SkippedIn(tg_results[k]) > 0 =>
              rich_message_closing(tg_results[k]) = "Skipping remaining tests"

\* The case a comes before the case b in declared order.
Before(a, b) == a[1] < b[1] \/ (a[1] = b[1] /\ a[2] < b[2])

\* The elements of the sequence q are in strictly increasing declared order.
Increasing(q) == \A i, j \in 1..Len(q) : i < j => Before(q[i], q[j])

\* C21: execution is sequential in declared order. The cases are executed and
\* their routines invoked in increasing (group, case) order, so none twice;
\* and the namespace changes only in the step that invokes a routine, to what
\* that routine leaves, so that every case sees it as the cases before left it.
C21_Sequential ==
    /\ [](Increasing(executed) /\ Increasing(invoked))
    /\ [][/\ invoked' = invoked => mod' = mod
          /\ invoked' # invoked =>
                /\ invoked' = Append(invoked, <<gi, ci>>)
                /\ mod' = invoke(test_case.test_scenario, exec_args, mod).mod]_vars

\* A finished run of a group holding the same case twice: the first
\* execution was accepted and removed the name of the function, the second
\* found the name missing.
C21_Witness ==
    /\ pc = "done"
    /\ Len(suite.test_groups) >= 1
    /\ Len(suite.test_groups[1].all_test_cases) = 2
    /\ suite.test_groups[1].all_test_cases[1] = suite.test_groups[1].all_test_cases[2]
    /\ tg_results[1].tc_results[1].judgement = "accepted"
    /\ tg_results[1].tc_results[2].judgement = "mistake"
    /\ InSeq(<<1, 2, "AttributeError">>, raised)

\* The judgements of a case result.
Judgements == {"accepted", "mistake", "skipped"}

\* C24: every case result has a judgement among accepted, mistake and
\* skipped, and carries a traceback if and only if it is a mistake; a result
\* once produced is there, unchanged, after every later step.
C24_CaseResults ==
    /\ [](\A r \in ResultsSoFar :
            /\ r.judgement \in Judgements
            /\ r.rich_traceback # NoTraceback <=> r.judgement = "mistake")
    /\ [][ResultsSoFar \subseteq ResultsSoFar']_vars

\* A finished run with the three judgements; the mistake carries the
\* AssertionError raised in the routine.
C24_Witness ==
    /\ pc = "done"
    /\ \E a, m, k \in ResultsSoFar :
          /\ a.judgement = "accepted"
          /\ m.judgement = "mistake"
          /\ m.rich_traceback.exc_type = "AssertionError"
          /\ k.judgement = "skipped"

\* TestSuite.execute has returned one group result per declared group.
Completed ==
    /\ pc = "done"
    /\ result.returned
    /\ Len(result.tg_results) = Len(suite.test_groups)

\* The run is at, or inside, a call of a routine that never returns.
InEndlessCall ==
    \/ pc = "in_wrapped_func"
    \/ /\ pc = "resolve"
       /\ Len(exec_args) = Len(test_case.test_scenario.exec_args)
       /\ invoke(test_case.test_scenario, exec_args, mod).raised = NeverReturns

\* C26: no timeout, no cancellation. A run none of whose calls is endless
\* completes with one result per group; from an endless call of a routine on,
\* the run never completes and neither the case of the call nor any later
\* case or group has a result.
C26_NoTimeout ==
    /\ []~InEndlessCall => <>Completed
    /\ [](InEndlessCall =>
            [](/\ pc # "done"
               /\ ~result.returned
               /\ Len(tc_results) = ci - 1
               /\ Len(tg_results) = gi - 1))

\* The run is inside the endless call of the second case of its second
\* group; the first group and the first case have their results.
C26_Witness ==
    /\ pc = "in_wrapped_func"
    /\ gi = 2
    /\ ci = 2
    /\ Len(tg_results) = 1
    /\ Len(tc_results) = 1

\* C27 as stated: the definitions are read-only during a run. No step of
\* TestSuite.execute, TestGroup.execute, TestCase.execute or TestCase.do_skip
\* changes the group list, a group's name, weight or case list, a scenario's
\* routine or sources, or a case's parameter binding. The routine receives
\* the objects bound in the case, and a function of the artifact that changes
\* its argument in place changes the binding.
C27_DefinitionsReadOnly == [][suite' = suite]_vars

\* The judgements of a sequence of case results.
JudgementsOf(results) == [i \in 1..Len(results) |-> results[i].judgement]

\* Accepted n times, then nothing more, or one mistake followed by skipped
\* only.
CascadeShape(j) ==
    \E n \in 0..Len(j) :
        /\ \A i \in 1..n : j[i] = "accepted"
        /\ n < Len(j) =>
              /\ j[n + 1] = "mistake"
              /\ \A i \in (n + 2)..Len(j) : j[i] = "skipped"

\* C28: with force_grade_all false the judgements of every group, returned or
\* in progress, are some accepted, then possibly one mistake followed only by
\* skipped: at most one mistake, the first result never skipped, and no
\* skipped without a mistake before it.
C28_GroupShape ==
    ~ctx.force_grade_all =>
        \A j \in {JudgementsOf(tg_results[k].tc_results) : k \in 1..Len(tg_results)}
                 \cup {JudgementsOf(tc_results)} :
            /\ CascadeShape(j)
            /\ Cardinality({i \in 1..Len(j) : j[i] = "mistake"}) <= 1
            /\ Len(j) >= 1 => j[1] # "skipped"
            /\ \A i \in 1..Len(j) :
                  j[i] = "skipped" => \E k \in 1..(i - 1) : j[k] = "mistake"

\* A finished run without force_grade_all: a group with accepted then
\* mistake, and a group with mistake then skipped.
C28_Witness ==
    /\ pc = "done"
    /\ ~ctx.force_grade_all
    /\ Len(tg_results) = 2
    /\ JudgementsOf(tg_results[1].tc_results) = <<"accepted", "mistake">>
    /\ JudgementsOf(tg_results[2].tc_results) = <<"mistake", "skipped">>

\* C30: for every suite result, over groups of weight >= 0, score_earned
\* lies between 0 and total_weight, a perfect result earns the total weight,
\* and the result of a suite without groups is perfect with 0 out of 0.
C30_ScoreBounds ==
    result.returned =>
        /\ \A g \in 1..Len(suite.test_groups) : suite.test_groups[g].score_weight >= 0
        /\ 0 <= suite_score_earned(result, suite)
        /\ suite_score_earned(result, suite) <= total_weight(result, suite)
        /\ is_perfect(result) => suite_score_earned(result, suite) = total_weight(result, suite)
        /\ Len(suite.test_groups) = 0 =>
              /\ is_perfect(result)
              /\ suite_score_earned(result, suite) = 0
              /\ total_weight(result, suite) = 0

\* A suite result that is not perfect and earned part of the total weight.
C30_Witness ==
    /\ result.returned
    /\ ~is_perfect(result)
    /\ 0 < suite_score_earned(result, suite)
    /\ suite_score_earned(result, suite) < total_weight(result, suite)

-----------------------------------------------------------------------------
(* Properties of the definitions.                                          *)

\* The number of Param sources among the first i argument sources.
ParamsUpTo(args, i) == Cardinality({k \in 1..i : args[k].kind = "Param"})

\* Every parameter of the routine is a plain positional parameter.
AllPositional(func) ==
    \A i \in 1..Len(func.parameters) :
        func.parameters[i] \notin {"VAR_POSITIONAL", "KEYWORD_ONLY", "VAR_KEYWORD"}

\* C11: TestScenario.create succeeds if and only if every parameter of the
\* routine is a plain positional parameter and there are as many parameters
\* as argument sources; otherwise it raises a TypeError naming the routine,
\* and no scenario, case or suite follows.
C11_CreateArity ==
    created.error # "NotCalled" =>
        /\ created.error = "None" <=>
              (AllPositional(defn.func) /\ Len(defn.func.parameters) = Len(defn.args))
        /\ created.error = "None" =>
              created.scenario = TestScenario(defn.func.name, defn.args)
        /\ created.error # "None" =>
              /\ created.error = "TypeError"
              /\ created.message[1] = defn.func.name
              /\ pc = "definition_error"
              /\ built = NotCalled
              /\ suite = TestSuite(<<>>)

\* A routine of two positional parameters given one argument source: create
\* has raised.
C11_Witness ==
    /\ pc = "definition_error"
    /\ defn.func.parameters = <<"POSITIONAL_OR_KEYWORD", "POSITIONAL_OR_KEYWORD">>
    /\ Len(defn.args) = 1
    /\ created.error = "TypeError"

\* C12: TestScenario.data produces a case if and only if it is given as many
\* values as the scenario has Param sources; otherwise it raises a ValueError
\* naming the routine, the expected and the actual count, and no case or
\* suite follows.
C12_DataArity ==
    built.error # "NotCalled" =>
        LET n == ParamsUpTo(created.scenario.exec_args, Len(created.scenario.exec_args))
        IN  /\ built.error = "None" <=> Len(defn.values) = n
            /\ built.error = "None" => built.case.test_scenario = created.scenario
            /\ built.error # "None" =>
                  /\ built.error = "ValueError"
                  /\ built.message = <<defn.func.name, n, Len(defn.values)>>
                  /\ pc = "definition_error"
                  /\ suite = TestSuite(<<>>)

\* Three values given to a scenario of two Param sources: data has raised.
C12_Witness ==
    /\ pc = "definition_error"
    /\ built.error = "ValueError"
    /\ built.message = <<"test_routine", 2, 3>>

\* The run is about to call the routine: every argument source is resolved.
AboutToInvoke ==
    /\ pc = "resolve"
    /\ Len(exec_args) = Len(test_case.test_scenario.exec_args)

\* The values about to be passed are the j-th data value at the position of
\* the j-th Param source and the binding of the name at a ModuleItem.
PassesDataInSlotOrder ==
    \A i \in 1..Len(exec_args) :
        LET a == test_case.test_scenario.exec_args[i]
        IN  IF a.kind = "Param"
            THEN exec_args[i] = defn.values[ParamsUpTo(test_case.test_scenario.exec_args, i)]
            ELSE exec_args[i] = [name |-> a.item_name, impl |-> mod[a.item_name]]

\* No Param object is given at two positions.
DistinctParams(args) ==
    \A i, j \in 1..Len(args) :
        (i # j /\ args[i].kind = "Param" /\ args[j].kind = "Param") => args[i].id # args[j].id

\* C13 as stated: for every scenario create accepts and every case data builds,
\* the routine receives the j-th value at the position of the j-th Param
\* source and the namespace binding at each ModuleItem position.
C13_Original ==
    AboutToInvoke => PassesDataInSlotOrder

\* C13 amended: the same, for the scenarios whose Param sources are pairwise
\* distinct objects.
C13_SlotOrder ==
    (AboutToInvoke /\ DistinctParams(test_case.test_scenario.exec_args))
        => PassesDataInSlotOrder

\* A scenario (Param, ModuleItem, Param) with data (7, 8): the routine is
\* about to receive 7, the binding of count_even, 8.
C13_Witness ==
    /\ AboutToInvoke
    /\ defn.args = <<Param(2), ModuleItem("count_even"), Param(1)>>
    /\ defn.values = <<7, 8>>
    /\ exec_args[1] = 7
    /\ exec_args[3] = 8

\* C14: a case built by data binds a value to every Param source of its
\* scenario, and no resolution of a Param raises KeyError during a run.
C14_ParamAlwaysBound ==
    /\ built.error = "None" =>
          \A i \in 1..Len(built.case.test_scenario.exec_args) :
              built.case.test_scenario.exec_args[i].kind = "Param" =>
                  built.case.test_scenario.exec_args[i].id \in DOMAIN built.case.params
    /\ \A i \in 1..Len(raised) : raised[i][3] # "KeyError"

\* A case with three Param sources has been executed and its routine invoked.
C14_Witness ==
    /\ built.error = "None"
    /\ ParamsUpTo(defn.args, Len(defn.args)) = 3
    /\ Len(invoked) > 0
    /\ Len(resolved) >= 3


-----------------------------------------------------------------------------
(* Properties of the grading program.                                      *)

\* The program has ended without a module: load_module raised.
LoadFailed == pc = "exited" /\ ~result.returned

\* The program has ended after TEST_SUITE.execute returned.
Graded == pc = "exited" /\ result.returned

\* The result r has one group result per declared group and one skipped
\* judgement per declared case, in declared order.
AllSkipped(r) ==
    /\ Len(r.tg_results) = Len(suite.test_groups)
    /\ \A g \in 1..Len(r.tg_results) :
          /\ r.tg_results[g].parent = g
          /\ Len(r.tg_results[g].tc_results) = Len(suite.test_groups[g].all_test_cases)
          /\ \A c \in 1..Len(r.tg_results[g].tc_results) :
                /\ r.tg_results[g].tc_results[c].parent = <<g, c>>
                /\ r.tg_results[g].tc_results[c].judgement = "skipped"

\* C18 as stated: when the artifact fails to load no case is executed, the
\* suite's all-skipped result has one summary per group, one skipped judgement
\* per case, score_earned 0 and total_weight the sum of the group weights, and
\* the program writes it when export_json is set and exits with status 1.
\* A cell that calls sys.exit ends the program with the cell's status and
\* without a report.
C18_LoadFailure ==
    /\ AllSkipped(TestSuite_do_skip(suite))
    /\ suite_score_earned(TestSuite_do_skip(suite), suite) = 0
    /\ total_weight(TestSuite_do_skip(suite), suite)
          = SumTo([g \in 1..Len(suite.test_groups) |-> suite.test_groups[g].score_weight],
                  Len(suite.test_groups))
    /\ LoadFailed =>
          /\ executed = <<>>
          /\ invoked = <<>>
          /\ exit_status = 1
          /\ export_json =>
                report = Written(TestSuiteResult_serialize(TestSuite_do_skip(suite), suite))

\* C19: after a run that loaded the artifact and executed the suite, the exit
\* status is 0 if and only if the result is perfect or always_zero_exit is
\* set, and 1 otherwise, with or without export_json; the step that writes
\* the report changes neither the result nor the status.
C19_ExitStatus ==
    /\ [](Graded =>
            /\ exit_status \in {0, 1}
            /\ exit_status = 0 <=> (ctx.always_zero_exit \/ is_perfect(result)))
    /\ [][(result.returned /\ report' # report) =>
            UNCHANGED <<exit_status, result, ctx>>]_vars

\* A graded run whose result is not perfect, exported to the report, and
\* ended with status 0 by always_zero_exit.
C19_Witness ==
    /\ Graded
    /\ export_json
    /\ report.written
    /\ ctx.always_zero_exit
    /\ ~is_perfect(result)
    /\ exit_status = 0

\* C20 as stated: with always_zero_exit set, every run of the program that
\* ends, ends with status 0. The except clause of the load raises
\* SystemExit(1) whatever the option is.
C20_AlwaysZeroExit ==
    (ctx.always_zero_exit /\ pc = "exited") => exit_status = 0


\* C23: the report written after a graded run mirrors the run. Each group
\* summary carries the name, the weight, the score and is_accepted of its
\* group and one judgement string per declared case in declared order; the
\* summaries are in declared group order, and total_weight and score_earned
\* are the sums of the score_weight and score_earned fields of the summaries.
C23_ReportMirrorsRun ==
    (report.written /\ result.returned) =>
        LET rep == report.content
            n == Len(rep.test_groups)
        IN  /\ n = Len(suite.test_groups)
            /\ \A g \in 1..n :
                  LET summary == rep.test_groups[g]
                      group == suite.test_groups[g]
                      gr == result.tg_results[g]
                  IN  /\ summary.group_name = group.name
                      /\ summary.score_weight = group.score_weight
                      /\ summary.score_earned = score_earned(gr, suite)
                      /\ summary.is_accepted = gr.is_accepted
                      /\ Len(summary.sub_results) = Len(group.all_test_cases)
                      /\ \A i \in 1..Len(summary.sub_results) :
                            /\ summary.sub_results[i] \in Judgements
                            /\ summary.sub_results[i] = gr.tc_results[i].judgement
            /\ rep.total_weight = SumTo([g \in 1..n |-> rep.test_groups[g].score_weight], n)
            /\ rep.score_earned = SumTo([g \in 1..n |-> rep.test_groups[g].score_earned], n)

\* A written report of two groups of weight 10: one accepted, one with a
\* mistake followed by a skipped case; 10 out of 20.
C23_Witness ==
    /\ report.written
    /\ result.returned
    /\ Len(report.content.test_groups) = 2
    /\ report.content.test_groups[1].sub_results = <<"accepted", "accepted">>
    /\ report.content.test_groups[2].sub_results = <<"mistake", "skipped">>
    /\ report.content.total_weight = 20
    /\ report.content.score_earned = 10

-----------------------------------------------------------------------------
(* Properties of two executions of one suite.                              *)

\* The second call of TestSuite.execute has returned.
SecondDone == previous.executed /\ pc = "done"

\* The second call started from the namespace the first call started from.
NamespaceUnchanged == previous.mod_left = previous.mod

\* The second call found the suite as the first call found it.
SuiteUnchanged == previous.suite_left = previous.suite

\* C22: idempotence. When the suite is executed twice with the same
\* configuration and the second execution starts from the suite and the
\* namespace the first one started from, the two serialized reports are
\* identical.
C22_Idempotent ==
    (SecondDone /\ ctx = previous.ctx /\ SuiteUnchanged /\ NamespaceUnchanged) =>
        TestSuiteResult_serialize(result, suite) = previous.report

\* Two executions with the same configuration on an unchanged namespace,
\* whose report has a group with a mistake followed by a skipped case.
C22_Witness ==
    /\ SecondDone
    /\ ctx = previous.ctx
    /\ SuiteUnchanged
    /\ NamespaceUnchanged
    /\ \E g \in 1..Len(previous.report.test_groups) :
          previous.report.test_groups[g].sub_results = <<"mistake", "skipped">>


\* C25: verbosity does not influence grading. Two executions of the same
\* suite from the same namespace whose configurations differ only in the verbosity
\* have the same serialized report: the same judgements, the same group
\* scores and the same totals.
C25_VerbosityIrrelevant ==
    (/\ SecondDone
     /\ SuiteUnchanged
     /\ NamespaceUnchanged
     /\ ctx.force_grade_all = previous.ctx.force_grade_all
     /\ ctx.verbosity # previous.ctx.verbosity) =>
        TestSuiteResult_serialize(result, suite) = previous.report

\* A quiet execution followed by a verbose one of the same suite, with a
\* mistake followed by a skipped case; the second mistake carries a full
\* Traceback.
C25_Witness ==
    /\ SecondDone
    /\ SuiteUnchanged
    /\ NamespaceUnchanged
    /\ ctx.force_grade_all = previous.ctx.force_grade_all
    /\ previous.ctx.verbosity = 0
    /\ ctx.verbosity = 1
    /\ \E g \in 1..Len(previous.report.test_groups) :
          /\ previous.report.test_groups[g].sub_results = <<"mistake", "skipped">>
          /\ result.tg_results[g].tc_results[1].rich_traceback.cls = "Traceback"


\* No step of either execution changed the suite or the namespace: the
\* outcome of a case does not depend on the cases executed before it.
OutcomesFixed ==
    /\ SuiteUnchanged
    /\ NamespaceUnchanged
    /\ suite = previous.suite
    /\ mod = previous.mod

\* The index of the first mistake of a judgement list, or its length if it
\* has none.
FirstMistake(j) ==
    IF \E i \in 1..Len(j) : j[i] = "mistake"
    THEN CHOOSE i \in 1..Len(j) :
            j[i] = "mistake" /\ \A k \in 1..(i - 1) : j[k] # "mistake"
    ELSE Len(j)

\* The group summaries f of a forced execution and n of an unforced one
\* agree as C29 says.
ForcedAgrees(f, n) ==
    /\ f.is_accepted = n.is_accepted
    /\ f.score_earned = n.score_earned
    /\ Len(f.sub_results) = Len(n.sub_results)
    /\ \A i \in 1..FirstMistake(n.sub_results) : f.sub_results[i] = n.sub_results[i]
    /\ \A i \in 1..Len(n.sub_results) :
          /\ n.sub_results[i] # "skipped" => f.sub_results[i] = n.sub_results[i]
          /\ f.sub_results[i] # "skipped"

\* C29: when the outcome of each case is fixed, executing a group with and
\* without force_grade_all gives the same is_accepted and score_earned, the
\* two judgement lists agree up to and including the first mistake, and the
\* forced execution differs only by real judgements where the other has
\* skipped.
C29_ForceRefines ==
    (/\ SecondDone
     /\ OutcomesFixed
     /\ ctx.force_grade_all # previous.ctx.force_grade_all) =>
        LET now == TestSuiteResult_serialize(result, suite).test_groups
            before == previous.report.test_groups
        IN  /\ Len(now) = Len(before)
            /\ \A g \in 1..Len(now) :
                  IF ctx.force_grade_all
                  THEN ForcedAgrees(now[g], before[g])
                  ELSE ForcedAgrees(before[g], now[g])

\* An unforced execution then a forced one of a group whose cases are both
\* mistakes: mistake and skipped, then mistake and mistake, score 0 both times.
C29_Witness ==
    /\ SecondDone
    /\ OutcomesFixed
    /\ ctx.force_grade_all
    /\ ~previous.ctx.force_grade_all
    /\ Len(result.tg_results) >= 1
    /\ previous.report.test_groups[1].sub_results = <<"mistake", "skipped">>
    /\ JudgementsOf(result.tg_results[1].tc_results) = <<"mistake", "mistake">>

-----------------------------------------------------------------------------
(* Properties of load_module.                                              *)

\* The load is over: load_module returned the module or raised.
LoadOver == load_pc \in {"returned", "raised"}

\* The indices of the cells of nb the loop hands to exec when none raises.
RunnableCells ==
    SelectSeq([i \in 1..Len(nb.cells) |-> i], LAMBDA i : ~skips_cell(nb.cells[i]))

\* exec raises on the cell at index i.
CellRaises(i) == exec_raises(nb.cells[i].effect) # NoException

\* The cells of RunnableCells up to and including the first one that raises.
UpToFirstRaising ==
    SelectSeq(RunnableCells,
              LAMBDA i : \A j \in 1..(i - 1) : ~skips_cell(nb.cells[j]) => ~CellRaises(j))

\* C31: load_module restores shell.user_ns to the value it had before the
\* call on every exit path, after all the cells ran as well as when a cell
\* raises and the load fails; the cells are executed in notebook order and no
\* cell after the first raising cell is executed.
C31_NamespaceRestored ==
    /\ LoadOver => shell_user_ns = user_ns_before
    /\ \A k \in 1..Len(cells_run) :
            /\ k > 1 => cells_run[k - 1] < cells_run[k]
            /\ k < Len(cells_run) => ~CellRaises(cells_run[k])
    /\ load_pc = "returned" =>
            /\ cells_run = RunnableCells
            /\ \A k \in 1..Len(cells_run) : ~CellRaises(cells_run[k])
    /\ load_pc = "raised" /\ nb.readable =>
            /\ cells_run = UpToFirstRaising
            /\ CellRaises(cells_run[Len(cells_run)])

\* A cell assigned a namespace to the user_ns of the shell, a later cell
\* raised before a cell that would have run, and the exception left
\* load_module.
C31_Witness ==
    /\ load_pc = "raised"
    /\ Len(cells_run) >= 2
    /\ nb.cells[cells_run[1]].effect = "rebinds"
    /\ \E i \in 1..Len(nb.cells) :
            i > cells_run[Len(cells_run)] /\ ~skips_cell(nb.cells[i])
    /\ shell_user_ns = user_ns_before

=============================================================================
